---- MODULE Spec2Model ----
(***************************************************************************)
(* Model of the Latin <-> symbol-alphabet transliterator:                  *)
(*   alphabet_converter_Version2.py  (MAPPING, convert_text)               *)
(*   alphabet_reverse_Version2.py    (FORWARD, PREFERENCES, REVERSE,       *)
(*                                    SYMBOLS_SORTED,                      *)
(*                                    choose_latin_for_symbol,             *)
(*                                    reverse_convert)                     *)
(*                                                                         *)
(* A Python str is a sequence of characters; a character is a one-element  *)
(* name: an ASCII character stands for itself, any other code point is     *)
(* written "U+XXXX".  A dict is the sequence of its <<key, value>> items   *)
(* in insertion order.  Positions i are 0-based as in the source.          *)
(***************************************************************************)
EXTENDS Integers, Sequences, FiniteSets, TLC

VARIABLES MAPPING, FORWARD, PREFERENCES, REVERSE, SYMBOLS_SORTED, frame

vars == <<MAPPING, FORWARD, PREFERENCES, REVERSE, SYMBOLS_SORTED, frame>>

tables == <<MAPPING, FORWARD, PREFERENCES, REVERSE, SYMBOLS_SORTED>>

----------------------------------------------------------------------------
(* Characters                                                              *)

UpperLetters ==
    <<"A","B","C","D","E","F","G","H","I","J","K","L","M",
      "N","O","P","Q","R","S","T","U","V","W","X","Y","Z">>

LowerLetters ==
    <<"a","b","c","d","e","f","g","h","i","j","k","l","m",
      "n","o","p","q","r","s","t","u","v","w","x","y","z">>

Range(f) == {f[k] : k \in DOMAIN f}

IndexOf(seq, x) == CHOOSE k \in DOMAIN seq : seq[k] = x

\* str.upper() of one character: a str, because one character can
\* upper-case to several (U+00DF -> "SS").
Upper(ch) ==
    IF ch \in Range(LowerLetters) THEN <<UpperLetters[IndexOf(LowerLetters, ch)]>>
    ELSE CASE ch = "U+00E9" -> <<"U+00C9">>
           [] ch = "U+00DF" -> <<"S", "S">>
           [] ch = "U+0131" -> <<"I">>
           [] ch = "U+017F" -> <<"S">>
           [] OTHER -> <<ch>>

\* str.lower() of one character.
Lower(ch) ==
    IF ch \in Range(UpperLetters) THEN <<LowerLetters[IndexOf(UpperLetters, ch)]>>
    ELSE CASE ch = "U+00C9" -> <<"U+00E9">>
           [] OTHER -> <<ch>>

RECURSIVE StrUpper(_)
StrUpper(s) == IF s = <<>> THEN <<>> ELSE Upper(Head(s)) \o StrUpper(Tail(s))

RECURSIVE StrLower(_)
StrLower(s) == IF s = <<>> THEN <<>> ELSE Lower(Head(s)) \o StrLower(Tail(s))

\* ord() of the characters that occur in dict keys and values.
Ord(ch) ==
    IF ch \in Range(UpperLetters) THEN 64 + IndexOf(UpperLetters, ch)
    ELSE IF ch \in Range(LowerLetters) THEN 96 + IndexOf(LowerLetters, ch)
    ELSE CASE ch = "7"      -> 55
           [] ch = "U+0300" -> 768
           [] ch = "U+0301" -> 769
           [] ch = "U+0304" -> 772
           [] ch = "U+039B" -> 923
           [] ch = "U+0413" -> 1043
           [] ch = "U+0418" -> 1048
           [] ch = "U+041F" -> 1055
           [] ch = "U+2200" -> 8704
           [] ch = "U+30B3" -> 12467
           [] ch = "U+30F2" -> 12530
           [] ch = "U+FF9A" -> 65434
           [] OTHER -> 0

\* Python's str < str: lexicographic by code point, a proper prefix first.
RECURSIVE StrLess(_, _)
StrLess(a, b) ==
    IF b = <<>> THEN FALSE
    ELSE IF a = <<>> THEN TRUE
    ELSE IF Ord(Head(a)) # Ord(Head(b)) THEN Ord(Head(a)) < Ord(Head(b))
    ELSE StrLess(Tail(a), Tail(b))

----------------------------------------------------------------------------
(* dict operations on item sequences                                       *)

Keys(d) == [k \in DOMAIN d |-> d[k][1]]

Has(d, key) == \E k \in DOMAIN d : d[k][1] = key

Get(d, key) == d[CHOOSE k \in DOMAIN d : d[k][1] = key][2]

----------------------------------------------------------------------------
(* The mapping table, as written in the reverse converter (FORWARD)         *)

ForwardLiteral ==
    << << <<"C","H">>, <<"T">> >>,
       << <<"S","H">>, <<"U+FF9A">> >>,
       << <<"A">>, <<"V","U+0301">> >>,
       << <<"B">>, <<"U+0413">> >>,
       << <<"C">>, <<"U+30F2">> >>,
       << <<"D">>, <<"U+30B3">> >>,
       << <<"E">>, <<"H">> >>,
       << <<"F">>, <<"U+2200">> >>,
       << <<"G">>, <<"7">> >>,
       << <<"H">>, <<"X">> >>,
       << <<"I">>, <<"U+0418">> >>,
       << <<"J">>, <<"U+FF9A","U+0300">> >>,
       << <<"K">>, <<"U+30F2">> >>,
       << <<"L">>, <<"Z">> >>,
       << <<"M">>, <<"U+041F">> >>,
       << <<"N">>, <<"L">> >>,
       << <<"O">>, <<"V","U+0300">> >>,
       << <<"P">>, <<"F">> >>,
       << <<"Q">>, <<"U+30F2">> >>,
       << <<"R">>, <<"Z">> >>,
       << <<"S">>, <<"U+039B">> >>,
       << <<"T">>, <<"E">> >>,
       << <<"U">>, <<"V","U+0304">> >>,
       << <<"V">>, <<"V">> >>,
       << <<"W">>, <<"V">> >>,
       << <<"X">>, <<"A">> >>,
       << <<"Y">>, <<"K">> >>,
       << <<"Z">>, <<"A">> >> >>

(* The same table, as written in the forward converter (MAPPING)           *)

\* Mutation: the table without its two digraph entries.
MappingWithoutDigraphs == Tail(Tail(ForwardLiteral))

MappingLiteral ==
    << << <<"C","H">>, <<"T">> >>,
       << <<"S","H">>, <<"U+FF9A">> >>,
       << <<"A">>, <<"V","U+0301">> >>,
       << <<"B">>, <<"U+0413">> >>,
       << <<"C">>, <<"U+30F2">> >>,
       << <<"D">>, <<"U+30B3">> >>,
       << <<"E">>, <<"H">> >>,
       << <<"F">>, <<"U+2200">> >>,
       << <<"G">>, <<"7">> >>,
       << <<"H">>, <<"X">> >>,
       << <<"I">>, <<"U+0418">> >>,
       << <<"J">>, <<"U+FF9A","U+0300">> >>,
       << <<"K">>, <<"U+30F2">> >>,
       << <<"L">>, <<"Z">> >>,
       << <<"M">>, <<"U+041F">> >>,
       << <<"N">>, <<"L">> >>,
       << <<"O">>, <<"V","U+0300">> >>,
       << <<"P">>, <<"F">> >>,
       << <<"Q">>, <<"U+30F2">> >>,
       << <<"R">>, <<"Z">> >>,
       << <<"S">>, <<"U+039B">> >>,
       << <<"T">>, <<"E">> >>,
       << <<"U">>, <<"V","U+0304">> >>,
       << <<"V">>, <<"V">> >>,
       << <<"W">>, <<"V">> >>,
       << <<"X">>, <<"A">> >>,
       << <<"Y">>, <<"K">> >>,
       << <<"Z">>, <<"A">> >> >>

PreferencesLiteral ==
    << << <<"U+30F2">>, <<"K">> >>,
       << <<"Z">>, <<"L">> >>,
       << <<"A">>, <<"Z">> >>,
       << <<"V">>, <<"V">> >> >>

----------------------------------------------------------------------------
(* Derived tables of the reverse converter                                 *)

\* rev.setdefault(sym, []).append(latin)
SetDefaultAppend(rev, sym, latin) ==
    IF Has(rev, sym)
    THEN [k \in DOMAIN rev |->
            IF rev[k][1] = sym THEN <<sym, Append(rev[k][2], latin)>> ELSE rev[k]]
    ELSE Append(rev, <<sym, <<latin>>>>)

RECURSIVE BuildFrom(_, _, _)
BuildFrom(forward_map, k, rev) ==
    IF k > Len(forward_map) THEN rev
    ELSE BuildFrom(forward_map, k + 1,
                   SetDefaultAppend(rev, forward_map[k][2], forward_map[k][1]))

build_reverse_map(forward_map) == BuildFrom(forward_map, 1, <<>>)

SeqMaxLen(seq) == CHOOSE m \in {Len(seq[k]) : k \in DOMAIN seq} :
                      \A k \in DOMAIN seq : Len(seq[k]) <= m

HasLen(x, m) == Len(x) = m

\* sorted(seq, key=len, reverse=True): stable, longest first.
RECURSIVE SortedByLenDesc(_)
SortedByLenDesc(seq) ==
    IF seq = <<>> THEN <<>>
    ELSE LET m == SeqMaxLen(seq)
             IsMax(x) == HasLen(x, m)
             NotMax(x) == ~HasLen(x, m)
         IN  SelectSeq(seq, IsMax) \o SortedByLenDesc(SelectSeq(seq, NotMax))

\* Mutation: the keys in insertion order, not sorted by length.
SymbolsUnsorted(rev) == Keys(rev)

\* SYMBOLS_SORTED = sorted(REVERSE.keys(), key=len, reverse=True)
SymbolsSorted(rev) == SortedByLenDesc(Keys(rev))

----------------------------------------------------------------------------
(* Python values used by the converters                                    *)

\* None, as a value distinct from every str of the model.
NoneValue == <<"None">>

\* preferences=None, and a dict of preferences given by its items.
NonePrefs == [isNone |-> TRUE, items |-> <<>>]

Dict(items) == [isNone |-> FALSE, items |-> items]

\* Truth value of `preferences`: None and the empty dict are false.
Truthy(preferences) == ~preferences.isNone /\ preferences.items # <<>>

\* "".join(out)
RECURSIVE Join(_)
Join(out) == IF out = <<>> THEN <<>> ELSE Head(out) \o Join(Tail(out))

\* s[k] for a 0-based k, and whether Python accepts the index.
InRange(s, k) == 0 <= k /\ k < Len(s)

At(s, k) == s[k + 1]

----------------------------------------------------------------------------
(* convert_text                                                            *)

\* Characters consumed by a digraph (i += 2).
DigraphLen == 2

\* Mutation: the bound of the two-character test off by one.
HasTwoOffByOne(i, n) == i + 1 <= n

\* if i + 1 < n

HasTwo(i, n) == i + 1 < n

\* two = (s[i] + s[i+1]).upper()
TwoUpper(s, i) == StrUpper(<<At(s, i), At(s, i + 1)>>)

\* up = ch.upper()
SingleUpper(s, i) == Upper(At(s, i))

\* Mutation: an unmapped character is emitted in its upper-cased form.
SinglePieceUppercased(m, s, i) ==
    IF Has(m, SingleUpper(s, i)) THEN Get(m, SingleUpper(s, i))
    ELSE SingleUpper(s, i)

\* The single-character branch: the mapped symbol, or the character itself.
SinglePiece(m, s, i) ==
    IF Has(m, SingleUpper(s, i)) THEN Get(m, SingleUpper(s, i))
    ELSE <<At(s, i)>>

\* Mutation: the pair is looked up without upper-casing it.
DigraphAtCaseSensitive(m, s, i, n) ==
    HasTwo(i, n) /\ Has(m, <<At(s, i), At(s, i + 1)>>)

\* Mutation: the single character is tried before the pair.
DigraphAtSingleFirst(m, s, i, n) ==
    HasTwo(i, n) /\ Has(m, TwoUpper(s, i)) /\ ~Has(m, SingleUpper(s, i))

\* Whether the digraph branch is taken at position i.
DigraphAt(m, s, i, n) == HasTwo(i, n) /\ Has(m, TwoUpper(s, i))

\* One iteration of the while loop, from position i with i < n.
\* err: the iteration raised IndexError (an index outside s was read).
ConvertIter(m, s, i, n, out) ==
    IF HasTwo(i, n) /\ ~InRange(s, i + 1)
    THEN [i |-> i, out |-> out, err |-> TRUE]
    ELSE IF DigraphAt(m, s, i, n)
    THEN [i |-> i + DigraphLen, out |-> Append(out, Get(m, TwoUpper(s, i))),
          err |-> FALSE]
    ELSE [i |-> i + 1, out |-> Append(out, SinglePiece(m, s, i)), err |-> FALSE]

\* The whole loop and the join, as a function of the table and the input.
RECURSIVE ConvertLoop(_, _, _, _)
ConvertLoop(m, s, i, out) ==
    IF i < Len(s)
    THEN LET r == ConvertIter(m, s, i, Len(s), out)
         IN  IF r.err THEN <<"IndexError">> ELSE ConvertLoop(m, s, r.i, r.out)
    ELSE Join(out)

convert_text(s) == ConvertLoop(MAPPING, s, 0, <<>>)

----------------------------------------------------------------------------
(* choose_latin_for_symbol and reverse_convert                             *)

\* Mutation: the last option in sorted order.
LastSorted(options) ==
    CHOOSE x \in Range(options) : \A y \in Range(options) : x = y \/ StrLess(y, x)

\* sorted(options)[0]
FirstSorted(options) ==
    CHOOSE x \in Range(options) : \A y \in Range(options) : x = y \/ StrLess(x, y)

\* Mutation: the preference is not checked against the options.
PreferenceUnchecked(preferences, symbol, options) ==
    Truthy(preferences) /\ Has(preferences.items, symbol)

\* preferences and symbol in preferences and preferences[symbol] in options
PreferenceUsable(preferences, symbol, options) ==
    /\ Truthy(preferences)
    /\ Has(preferences.items, symbol)
    /\ Get(preferences.items, symbol) \in Range(options)

\* Mutation: the preference tier is missing.
ChooseLatinNoPreferences(rev, symbol, preferences) ==
    LET options == IF Has(rev, symbol) THEN Get(rev, symbol) ELSE <<>>
    IN  IF options = <<>> THEN NoneValue
        ELSE IF Len(options) = 1 THEN options[1]
        ELSE FirstSorted(options)

\* The body of choose_latin_for_symbol, reading the inverse mapping rev.
ChooseLatin(rev, symbol, preferences) ==
    LET options == IF Has(rev, symbol) THEN Get(rev, symbol) ELSE <<>>
    IN  IF options = <<>> THEN NoneValue
        ELSE IF Len(options) = 1 THEN options[1]
        ELSE IF PreferenceUsable(preferences, symbol, options)
             THEN Get(preferences.items, symbol)
        ELSE FirstSorted(options)

choose_latin_for_symbol(symbol, preferences) ==
    ChooseLatin(REVERSE, symbol, preferences)

\* s.startswith(sym, i)
StartsWith(s, sym, i) ==
    /\ i + Len(sym) <= Len(s)
    /\ \A k \in 1..Len(sym) : s[i + k] = sym[k]

\* Index of the first symbol of the order that matches at i; 0 when none does.
FirstMatch(order, s, i) ==
    IF \E k \in DOMAIN order : StartsWith(s, order[k], i)
    THEN CHOOSE k \in DOMAIN order :
            /\ StartsWith(s, order[k], i)
            /\ \A j \in 1..(k - 1) : ~StartsWith(s, order[j], i)
    ELSE 0

\* One iteration of the while loop, from position i with i < n.
\* sym: the symbol matched (<<>> when none matched).
ReverseIter(order, rev, s, i, out, preferences) ==
    LET k == FirstMatch(order, s, i)
    IN  IF k # 0
        THEN LET sym   == order[k]
                 latin == ChooseLatin(rev, sym, preferences)
             IN  [i   |-> i + Len(sym),
                  out |-> Append(out, IF latin = NoneValue THEN sym ELSE latin),
                  sym |-> sym]
        ELSE [i |-> i + 1, out |-> Append(out, <<At(s, i)>>), sym |-> <<>>]

RECURSIVE ReverseLoop(_, _, _, _, _, _)
ReverseLoop(order, rev, s, i, out, preferences) ==
    IF i < Len(s)
    THEN LET r == ReverseIter(order, rev, s, i, out, preferences)
         IN  ReverseLoop(order, rev, s, r.i, r.out, preferences)
    ELSE Join(out)

reverse_convert(s, preferences) ==
    ReverseLoop(SYMBOLS_SORTED, REVERSE, s, 0, <<>>, preferences)

----------------------------------------------------------------------------
(* Callers and their inputs                                                *)

\* Longest input drawn from the reduced alphabets below.
MaxLen == 3

\* Most entries of a preference table handed to choose_latin_for_symbol.
MaxPrefs == 2

Seqs(A, n) == UNION {[1..k -> A] : k \in 0..n}

Letters == Range(UpperLetters) \cup Range(LowerLetters)

\* Letters of the digraphs, of the ambiguous group C/K/Q, of a two-code-point
\* symbol (J) and of a shared symbol (Z), with lower-case digraph letters.
ScanLetters == {"C", "H", "S", "K", "J", "Z", "c", "h", "s"}

\* Characters without a mapping (a digit, an emoji, U+00E9 whose upper case
\* is U+00C9, U+00DF whose upper case is "SS"), U+017F whose upper case is
\* the mapped "S", and two mapped letters.
OtherChars == {"1", "U+1F389", "U+00E9", "U+00DF", "U+017F", "s", "H"}

\* Every string up to the length of a digraph over all 52 letters, and the
\* longer strings over the reduced alphabets.
TextInputs ==
    Seqs(Letters, DigraphLen) \cup Seqs(ScanLetters, MaxLen) \cup Seqs(OtherChars, MaxLen)

\* Every code point of a symbol of the table, and two unmapped characters.
SymbolChars ==
    UNION {Range(ForwardLiteral[k][2]) : k \in DOMAIN ForwardLiteral}
        \cup {"U+0301", "U+0304", "1", "U+1F389"}

ScanSymbolChars == {"V", "U+0300", "U+0301", "U+FF9A", "U+30F2", "1"}

\* Length of the longest symbol.
MaxSymbolLen == SeqMaxLen([k \in DOMAIN ForwardLiteral |-> ForwardLiteral[k][2]])

SymbolInputs ==
    Seqs(SymbolChars, MaxSymbolLen) \cup Seqs(ScanSymbolChars, MaxLen)

\* Preference tables: a partial one with a valid and an invalid entry.
PartialPrefs ==
    Dict(<< << <<"U+30F2">>, <<"Q">> >>, << <<"Z">>, <<"X">> >> >>)

\* Entries of the preference tables given to choose_latin_for_symbol: the
\* four ambiguous symbols and one unambiguous symbol, each with a token that
\* is a candidate of exactly one of the ambiguous symbols.
PrefSymbols == << <<"U+30F2">>, <<"Z">>, <<"A">>, <<"V">>, <<"T">> >>

PrefTokens == {<<"K">>, <<"Q">>, <<"R">>, <<"W">>, <<"X">>}

PrefEntries == (DOMAIN PrefSymbols) \X PrefTokens

PrefTables ==
    {Dict([k \in DOMAIN q |-> <<PrefSymbols[q[k][1]], q[k][2]>>]) :
        q \in {q \in Seqs(PrefEntries, MaxPrefs) :
                  \A j, k \in DOMAIN q : j < k => q[j][1] < q[k][1]}}
        \cup {NonePrefs}

ChooseSymbols ==
    {ForwardLiteral[k][2] : k \in DOMAIN ForwardLiteral} \cup {<<"1">>, <<"U+FF9A", "U+0301">>}

----------------------------------------------------------------------------
(* State machine: each caller runs one call at a time                      *)

IdleFrame ==
    [pc |-> "idle", fn |-> "none", s |-> <<>>, n |-> 0, i |-> 0, out |-> <<>>,
     prefs |-> NonePrefs, rt |-> FALSE, src |-> <<>>, result |-> <<>>]

InitTables ==
    /\ MAPPING = MappingLiteral
    /\ FORWARD = ForwardLiteral
    /\ PREFERENCES = PreferencesLiteral
    /\ REVERSE = build_reverse_map(ForwardLiteral)
    /\ SYMBOLS_SORTED = SymbolsSorted(build_reverse_map(ForwardLiteral))

\* convert_text(s) is entered: out = [], i = 0, n = len(s).
CallConvert(c, inputs) ==
    /\ frame[c].pc = "idle"
    /\ \E s \in inputs :
         frame' = [frame EXCEPT ![c] =
                     [IdleFrame EXCEPT !.pc = "loop", !.fn = "convert_text",
                                       !.s = s, !.n = Len(s)]]
    /\ UNCHANGED tables

\* One iteration of convert_text's while loop.
ConvertStep(c) ==
    /\ frame[c].pc = "loop"
    /\ frame[c].fn = "convert_text"
    /\ frame[c].i < frame[c].n
    /\ LET f == frame[c]
           r == ConvertIter(MAPPING, f.s, f.i, f.n, f.out)
       IN  frame' = [frame EXCEPT ![c] =
                       IF r.err THEN [f EXCEPT !.pc = "raised"]
                       ELSE [f EXCEPT !.i = r.i, !.out = r.out]]
    /\ UNCHANGED tables

\* The loop condition fails: return "".join(out).
ConvertReturn(c) ==
    /\ frame[c].pc = "loop"
    /\ frame[c].fn = "convert_text"
    /\ ~(frame[c].i < frame[c].n)
    /\ frame' = [frame EXCEPT ![c].pc = "done", ![c].result = Join(frame[c].out)]
    /\ UNCHANGED tables

\* reverse_convert(s, preferences) is entered.
CallReverse(c, inputs, prefsets) ==
    /\ frame[c].pc = "idle"
    /\ \E s \in inputs, p \in prefsets \cup {Dict(PREFERENCES)} :
         frame' = [frame EXCEPT ![c] =
                     [IdleFrame EXCEPT !.pc = "loop", !.fn = "reverse_convert",
                                       !.s = s, !.n = Len(s), !.prefs = p]]
    /\ UNCHANGED tables

\* The caller feeds the result of convert_text to reverse_convert, with no
\* preferences or with the default PREFERENCES (as interactive() does).
RoundTrip(c) ==
    /\ frame[c].pc = "done"
    /\ frame[c].fn = "convert_text"
    /\ \E p \in {Dict(<<>>), Dict(PREFERENCES)} :
         frame' = [frame EXCEPT ![c] =
                     [IdleFrame EXCEPT !.pc = "loop", !.fn = "reverse_convert",
                                       !.s = frame[c].result,
                                       !.n = Len(frame[c].result), !.prefs = p,
                                       !.rt = TRUE, !.src = frame[c].s]]
    /\ UNCHANGED tables

\* One iteration of reverse_convert's while loop.
ReverseStep(c) ==
    /\ frame[c].pc = "loop"
    /\ frame[c].fn = "reverse_convert"
    /\ frame[c].i < frame[c].n
    /\ LET f == frame[c]
           r == ReverseIter(SYMBOLS_SORTED, REVERSE,
                            f.s, f.i, f.out, f.prefs)
       IN  frame' = [frame EXCEPT ![c] = [f EXCEPT !.i = r.i, !.out = r.out]]
    /\ UNCHANGED tables

ReverseReturn(c) ==
    /\ frame[c].pc = "loop"
    /\ frame[c].fn = "reverse_convert"
    /\ ~(frame[c].i < frame[c].n)
    /\ frame' = [frame EXCEPT ![c].pc = "done", ![c].result = Join(frame[c].out)]
    /\ UNCHANGED tables

\* Mutation: options = REVERSE.setdefault(symbol, []) instead of .get(symbol).
CallChooseSetdefault(c, symbols, prefsets) ==
    /\ frame[c].pc = "idle"
    /\ \E symbol \in symbols, p \in prefsets :
         /\ frame' = [frame EXCEPT ![c] =
                     [IdleFrame EXCEPT !.pc = "done", !.fn = "choose_latin_for_symbol",
                                       !.s = symbol, !.n = Len(symbol), !.prefs = p,
                                       !.result = choose_latin_for_symbol(symbol, p)]]
         /\ REVERSE' = IF Has(REVERSE, symbol) THEN REVERSE
                       ELSE Append(REVERSE, <<symbol, <<>>>>)
    /\ UNCHANGED <<MAPPING, FORWARD, PREFERENCES, SYMBOLS_SORTED>>

\* A direct call of choose_latin_for_symbol(symbol, preferences).
CallChoose(c, symbols, prefsets) ==
    /\ frame[c].pc = "idle"
    /\ \E symbol \in symbols, p \in prefsets :
         frame' = [frame EXCEPT ![c] =
                     [IdleFrame EXCEPT !.pc = "done", !.fn = "choose_latin_for_symbol",
                                       !.s = symbol, !.n = Len(symbol), !.prefs = p,
                                       !.result = choose_latin_for_symbol(symbol, p)]]
    /\ UNCHANGED tables

\* The caller drops the result (or the exception) and is free to call again.
Finish(c) ==
    /\ frame[c].pc \in {"done", "raised"}
    /\ frame' = [frame EXCEPT ![c] = IdleFrame]
    /\ UNCHANGED tables

\* One caller, drawing from the full input sets.
Callers == {1}

Init ==
    /\ InitTables
    /\ frame = [c \in Callers |-> IdleFrame]

Next ==
    \E c \in Callers :
        \/ CallConvert(c, TextInputs)
        \/ ConvertStep(c)
        \/ ConvertReturn(c)
        \/ RoundTrip(c)
        \/ CallReverse(c, SymbolInputs, {NonePrefs, Dict(<<>>), PartialPrefs})
        \/ ReverseStep(c)
        \/ ReverseReturn(c)
        \/ CallChoose(c, ChooseSymbols, PrefTables)
        \/ Finish(c)

Spec == Init /\ [][Next]_vars

\* Two callers whose calls interleave iteration by iteration, on a few inputs
\* chosen to take every branch of the three functions.
ConcCallers == {1, 2}

ConcTexts == {<<"c", "H", "K">>, <<"1", "J">>}

ConcSymbolTexts == {<<"U+30F2", "V", "U+0301">>, <<"U+FF9A", "U+0300", "1">>}

ConcChooseSymbols == {<<"U+30F2">>, <<"T">>, <<"1">>}

InitConc ==
    /\ InitTables
    /\ frame = [c \in ConcCallers |-> IdleFrame]

NextConc ==
    \E c \in ConcCallers :
        \/ CallConvert(c, ConcTexts)
        \/ ConvertStep(c)
        \/ ConvertReturn(c)
        \/ RoundTrip(c)
        \/ CallReverse(c, ConcSymbolTexts, {Dict(<<>>)})
        \/ ReverseStep(c)
        \/ ReverseReturn(c)
        \/ CallChoose(c, ConcChooseSymbols, {NonePrefs, PartialPrefs})
        \/ Finish(c)

SpecConc == InitConc /\ [][NextConc]_vars

----------------------------------------------------------------------------
(* Properties                                                              *)

\* A completed round trip reverse_convert(convert_text(src), p) of caller c.
RoundTripDone(c, p) ==
    /\ frame[c].pc = "done"
    /\ frame[c].fn = "reverse_convert"
    /\ frame[c].rt
    /\ frame[c].prefs = p

IsUpperText(s) == \A k \in DOMAIN s : s[k] \in Range(UpperLetters)

Contains(s, ch) == \E k \in DOMAIN s : s[k] = ch

\* L with every K and Q replaced by C, R by L, W by V and Z by X.
FallbackLetter(ch) ==
    CASE ch \in {"K", "Q"} -> "C"
      [] ch = "R" -> "L"
      [] ch = "W" -> "V"
      [] ch = "Z" -> "X"
      [] OTHER -> ch

FallbackText(s) == [k \in DOMAIN s |-> FallbackLetter(s[k])]

\* C1 as stated: with empty preferences, every upper-case text without C and
\* Q comes back unchanged from the round trip (K as K), and a lone C or Q
\* comes back as K.
C1_RoundTripEmptyAsStated ==
    \A c \in DOMAIN frame :
        (RoundTripDone(c, Dict(<<>>)) /\ IsUpperText(frame[c].src)) =>
            /\ (~Contains(frame[c].src, "C") /\ ~Contains(frame[c].src, "Q"))
                   => frame[c].result = frame[c].src
            /\ frame[c].src \in {<<"C">>, <<"Q">>} => frame[c].result = <<"K">>

\* C1 as amended: with empty preferences, the round trip of an upper-case
\* text L gives L with every K and Q replaced by C, every R by L, every W by
\* V and every Z by X, every other letter unchanged; so L comes back
\* unchanged when it holds none of K, Q, R, W, Z, and K and Q come back as C.
C1_RoundTripEmpty ==
    \A c \in DOMAIN frame :
        (RoundTripDone(c, Dict(<<>>)) /\ IsUpperText(frame[c].src)) =>
            /\ frame[c].result = FallbackText(frame[c].src)
            /\ (\A ch \in {"K", "Q", "R", "W", "Z"} : ~Contains(frame[c].src, ch))
                   => frame[c].result = frame[c].src

\* The round trip of "KCH" with empty preferences has returned "CCH".
C1_Witness ==
    \E c \in DOMAIN frame :
        /\ RoundTripDone(c, Dict(<<>>))
        /\ frame[c].src = <<"K", "C", "H">>
        /\ frame[c].s = <<"U+30F2", "T">>
        /\ frame[c].result = <<"C", "C", "H">>

\* L with every C outside a CH digraph and every Q replaced by K, R by L,
\* X by Z and W by V, read left to right as convert_text reads it.
RECURSIVE DefaultText(_)
DefaultText(s) ==
    IF s = <<>> THEN <<>>
    ELSE IF Len(s) >= 2 /\ SubSeq(s, 1, 2) \in {<<"C", "H">>, <<"S", "H">>}
         THEN SubSeq(s, 1, 2) \o DefaultText(SubSeq(s, 3, Len(s)))
    ELSE <<CASE Head(s) \in {"C", "Q"} -> "K"
             [] Head(s) = "R" -> "L"
             [] Head(s) = "X" -> "Z"
             [] Head(s) = "W" -> "V"
             [] OTHER -> Head(s)>> \o DefaultText(Tail(s))

\* C6: with the default PREFERENCES, the round trip of an upper-case text L
\* gives L with every C that does not start a CH digraph and every Q replaced
\* by K, every R by L, every X by Z, every W by V, and all else unchanged;
\* the round trip of "C" gives "K".
C6_RoundTripDefault ==
    \A c \in DOMAIN frame :
        (RoundTripDone(c, Dict(PreferencesLiteral)) /\ IsUpperText(frame[c].src)) =>
            /\ frame[c].result = DefaultText(frame[c].src)
            /\ frame[c].src = <<"C">> => frame[c].result = <<"K">>

\* The round trip of "CCH" with the default PREFERENCES has returned "KCH".
C6_Witness ==
    \E c \in DOMAIN frame :
        /\ RoundTripDone(c, Dict(PreferencesLiteral))
        /\ frame[c].src = <<"C", "C", "H">>
        /\ frame[c].result = <<"K", "C", "H">>

\* The tokens of a table with k characters.
TokensOfLen(d, k) == {d[j][1] : j \in {j \in DOMAIN d : Len(d[j][1]) = k}}

\* A table's tokens are distinct upper-case strings, its two-letter tokens
\* are CH and SH, and it has `singles` one-letter tokens.
TableShape(d, singles) ==
    /\ \A j, k \in DOMAIN d : j # k => d[j][1] # d[k][1]
    /\ \A j \in DOMAIN d : Len(d[j][1]) \in {1, 2} /\ IsUpperText(d[j][1])
    /\ TokensOfLen(d, 2) = {<<"C", "H">>, <<"S", "H">>}
    /\ Cardinality(TokensOfLen(d, 1)) = singles

\* C2 as stated: MAPPING and FORWARD hold exactly the two digraph tokens CH
\* and SH and exactly 24 single-letter tokens, all distinct and upper-case.
C2_TableShapeAsStated == TableShape(MAPPING, 24) /\ TableShape(FORWARD, 24)

\* C2 as amended: MAPPING and FORWARD hold exactly the two digraph tokens CH
\* and SH and exactly 26 single-letter tokens, one for every letter A-Z, all
\* tokens being distinct upper-case strings.
C2_TableShape ==
    /\ TableShape(MAPPING, 26) /\ TableShape(FORWARD, 26)
    /\ TokensOfLen(MAPPING, 1) = {<<ch>> : ch \in Range(UpperLetters)}
    /\ TokensOfLen(FORWARD, 1) = {<<ch>> : ch \in Range(UpperLetters)}

\* Both tables have been used: a round trip of "SHK" (a digraph token and a
\* single-letter token of MAPPING, then the inverse of FORWARD) has returned.
C2_Witness ==
    \E c \in DOMAIN frame :
        /\ frame[c].pc = "done" /\ frame[c].fn = "reverse_convert" /\ frame[c].rt
        /\ frame[c].src = <<"S", "H", "K">>
        /\ frame[c].s = Get(MAPPING, <<"S", "H">>) \o Get(MAPPING, <<"K">>)
        /\ Len(MAPPING) = 28 /\ Len(FORWARD) = 28

\* Caller c is about to run an iteration of the loop of fn, or has just run
\* one (the frame changed and the call is still in its loop).
Iterates(c, fn) ==
    /\ frame[c].pc = "loop" /\ frame[c].fn = fn
    /\ frame'[c].pc = "loop" /\ frame'[c].fn = fn
    /\ frame'[c] # frame[c]

\* The single-letter rule of convert_text at position i of s.
SingleRule(s, i) ==
    IF Has(MAPPING, Upper(At(s, i))) THEN Get(MAPPING, Upper(At(s, i)))
    ELSE <<At(s, i)>>

\* C3: in every iteration of convert_text at a position i with two characters
\* left whose upper-cased pair is a token of MAPPING, the pair's symbol is
\* emitted and i advances by 2; otherwise (also at the last position) the
\* single-letter rule applies and i advances by 1; and convert_text("CH") is
\* the symbol of CH, not convert_text("C") + convert_text("H").
C3_DigraphPriority ==
    [][\A c \in DOMAIN frame :
        /\ Iterates(c, "convert_text") =>
             LET f == frame[c]
                 g == frame'[c]
             IN  IF f.i + 2 <= Len(f.s)
                    /\ Has(MAPPING, Upper(At(f.s, f.i)) \o Upper(At(f.s, f.i + 1)))
                 THEN /\ g.i = f.i + 2
                      /\ g.out = Append(f.out,
                            Get(MAPPING, Upper(At(f.s, f.i)) \o Upper(At(f.s, f.i + 1))))
                 ELSE /\ g.i = f.i + 1
                      /\ g.out = Append(f.out, SingleRule(f.s, f.i))
        /\ (frame'[c].pc = "done" /\ frame'[c].fn = "convert_text"
              /\ frame'[c].s = <<"C", "H">>) =>
             /\ frame'[c].result = <<"T">>
             /\ frame'[c].result # convert_text(<<"C">>) \o convert_text(<<"H">>)
      ]_vars

\* convert_text("SCH") has emitted the symbol of S and then the symbol of the
\* digraph CH, and stands at the end of the input.
C3_Witness ==
    \E c \in DOMAIN frame :
        /\ frame[c].pc = "loop" /\ frame[c].fn = "convert_text"
        /\ frame[c].s = <<"S", "C", "H">>
        /\ frame[c].i = 3
        /\ frame[c].out = << <<"U+039B">>, <<"T">> >>

\* The candidate tokens of a symbol: the tokens FORWARD maps to it.
Candidates(symbol) ==
    {FORWARD[k][1] : k \in {k \in DOMAIN FORWARD : FORWARD[k][2] = symbol}}

\* The entry of a preference table for a symbol, as a set (empty: no entry).
PrefEntry(preferences, symbol) ==
    IF preferences.isNone THEN {}
    ELSE {preferences.items[k][2] :
             k \in {k \in DOMAIN preferences.items :
                       preferences.items[k][1] = symbol}}

\* C4: choose_latin_for_symbol(symbol, preferences), for a symbol of the
\* inverse mapping, returns the only candidate when there is one, whatever
\* the preferences; else the preference entry of the symbol when there is one
\* and it is a candidate; else the lexicographically smallest candidate.  The
\* symbol of C/K/Q gives "C" without preferences and "K" with preference K.
C4_ThreeTierRule ==
    \A c \in DOMAIN frame :
        (frame[c].pc = "done" /\ frame[c].fn = "choose_latin_for_symbol"
           /\ Candidates(frame[c].s) # {}) =>
            LET cands == Candidates(frame[c].s)
                entry == PrefEntry(frame[c].prefs, frame[c].s)
                res   == frame[c].result
            IN  /\ Cardinality(cands) = 1 => cands = {res}
                /\ (Cardinality(cands) > 1 /\ entry \cap cands # {}) => entry = {res}
                /\ (Cardinality(cands) > 1 /\ entry \cap cands = {}) =>
                      /\ res \in cands
                      /\ \A t \in cands : t = res \/ StrLess(res, t)
                /\ (frame[c].s = <<"U+30F2">> /\ ~Truthy(frame[c].prefs)) =>
                      res = <<"C">>
                /\ (frame[c].s = <<"U+30F2">> /\ entry = {<<"K">>}) => res = <<"K">>

\* choose_latin_for_symbol has returned "K" for the symbol of C/K/Q under a
\* table that prefers K for it and holds an invalid entry for another symbol.
C4_Witness ==
    \E c \in DOMAIN frame :
        /\ frame[c].pc = "done" /\ frame[c].fn = "choose_latin_for_symbol"
        /\ frame[c].s = <<"U+30F2">>
        /\ frame[c].prefs = Dict(<< << <<"U+30F2">>, <<"K">> >>,
                                    << <<"Z">>, <<"X">> >> >>)
        /\ frame[c].result = <<"K">>

\* The keys of REVERSE that are a prefix of s at position i.
MatchingSymbols(s, i) ==
    {REVERSE[k][1] : k \in {k \in DOMAIN REVERSE : StartsWith(s, REVERSE[k][1], i)}}

\* C5: in every iteration of reverse_convert the positions consumed are the
\* longest key of REVERSE that is a prefix of the rest of the input (one
\* character when no key is), so a shorter symbol is never matched where a
\* longer one matches and a multi-code-point symbol is never split.
C5_LongestMatch ==
    [][\A c \in DOMAIN frame :
        Iterates(c, "reverse_convert") =>
            LET f == frame[c]
                g == frame'[c]
                m == MatchingSymbols(f.s, f.i)
            IN  IF m = {}
                THEN g.i = f.i + 1 /\ g.out = Append(f.out, <<At(f.s, f.i)>>)
                ELSE /\ SubSeq(f.s, f.i + 1, g.i) \in m
                     /\ \A sym \in m : Len(sym) <= g.i - f.i
                     /\ g.out = Append(f.out,
                            choose_latin_for_symbol(SubSeq(f.s, f.i + 1, g.i), f.prefs))
      ]_vars

\* reverse_convert has consumed the two code points of the symbol of J as one
\* symbol, although its first code point alone is the symbol of SH.
C5_Witness ==
    \E c \in DOMAIN frame :
        /\ frame[c].pc = "loop" /\ frame[c].fn = "reverse_convert"
        /\ frame[c].s = <<"U+FF9A", "U+0300", "V">>
        /\ frame[c].i = 2
        /\ frame[c].out = << <<"J">> >>

IsLatinText(s) == \A k \in DOMAIN s : s[k] \in Letters

\* C7: for every text s of Latin letters in any mix of cases, convert_text(s)
\* equals convert_text(s.upper()) and convert_text(s.lower()).
C7_CaseInsensitive ==
    \A c \in DOMAIN frame :
        (frame[c].pc = "done" /\ frame[c].fn = "convert_text"
           /\ IsLatinText(frame[c].s)) =>
            /\ frame[c].result = convert_text(StrUpper(frame[c].s))
            /\ frame[c].result = convert_text(StrLower(frame[c].s))

\* convert_text("scH") has returned the symbol of S and the symbol of CH.
C7_Witness ==
    \E c \in DOMAIN frame :
        /\ frame[c].pc = "done" /\ frame[c].fn = "convert_text"
        /\ frame[c].s = <<"s", "c", "H">>
        /\ frame[c].result = <<"U+039B", "T">>

\* A character has no mapping when its upper-cased form is no token.
Unmapped(ch) == ~Has(MAPPING, Upper(ch))

\* C8: an iteration of convert_text at a character without a mapping emits
\* that character as it stands in the input (not its upper-cased form) and
\* advances by 1; so convert_text(x) = x for every x made only of characters
\* without a mapping.
C8_PassThrough ==
    [][\A c \in DOMAIN frame :
        /\ (Iterates(c, "convert_text") /\ Unmapped(At(frame[c].s, frame[c].i))) =>
             /\ frame'[c].i = frame[c].i + 1
             /\ frame'[c].out = Append(frame[c].out, <<At(frame[c].s, frame[c].i)>>)
        /\ (frame'[c].pc = "done" /\ frame'[c].fn = "convert_text"
              /\ \A k \in DOMAIN frame'[c].s : Unmapped(frame'[c].s[k])) =>
             frame'[c].result = frame'[c].s
      ]_vars

\* convert_text has returned a text with U+00E9 and an emoji unchanged and in
\* place around a mapped letter.
C8_Witness ==
    \E c \in DOMAIN frame :
        /\ frame[c].pc = "done" /\ frame[c].fn = "convert_text"
        /\ frame[c].s = <<"U+00E9", "s", "U+1F389">>
        /\ frame[c].result = <<"U+00E9", "U+039B", "U+1F389">>

InScan(f) == f.fn \in {"convert_text", "reverse_convert"}

\* C9: the loops of convert_text and reverse_convert never raise (no index
\* outside the input is read); every iteration advances the position by at
\* least 1 and never past the end of the input and emits one piece, so a loop
\* runs at most len(s) iterations; and it ends, and returns, with the
\* position equal to the length of the input.
C9_Totality ==
    [][\A c \in DOMAIN frame :
        LET f == frame[c]
            g == frame'[c]
        IN  /\ g.pc # "raised"
            /\ InScan(g) => (g.n = Len(g.s) /\ 0 <= g.i /\ g.i <= g.n)
            /\ (Iterates(c, "convert_text") \/ Iterates(c, "reverse_convert")) =>
                  (f.i < g.i /\ Len(g.out) = Len(f.out) + 1 /\ g.s = f.s)
            /\ (InScan(g) /\ g.pc = "loop" /\ ~(g.i < g.n)) => g.i = g.n
            /\ (InScan(g) /\ g.pc = "done") => g.i = Len(g.s)
      ]_vars

\* convert_text("CHK") has returned after two iterations with i = n = 3.
C9_Witness ==
    \E c \in DOMAIN frame :
        /\ frame[c].pc = "done" /\ frame[c].fn = "convert_text"
        /\ frame[c].s = <<"C", "H", "K">>
        /\ frame[c].i = 3 /\ frame[c].n = 3
        /\ Len(frame[c].out) = 2

\* The result of a call as a function of its arguments and of the tables as
\* they are after initialization.
PureResult(f) ==
    CASE f.fn = "convert_text" -> ConvertLoop(MappingLiteral, f.s, 0, <<>>)
      [] f.fn = "reverse_convert" ->
           ReverseLoop(SymbolsSorted(build_reverse_map(ForwardLiteral)),
                       build_reverse_map(ForwardLiteral), f.s, 0, <<>>, f.prefs)
      [] f.fn = "choose_latin_for_symbol" ->
           ChooseLatin(build_reverse_map(ForwardLiteral), f.s, f.prefs)
      [] OTHER -> <<>>

\* C10: no step of any caller, however the callers' calls interleave, changes
\* MAPPING, FORWARD, REVERSE (the order of its candidate lists included),
\* SYMBOLS_SORTED, PREFERENCES, or the arguments (text and preference table)
\* of a running call; and every call returns the result determined by its
\* arguments alone.
C10_NoSharedMutation ==
    [][/\ MAPPING' = MAPPING /\ FORWARD' = FORWARD /\ REVERSE' = REVERSE
       /\ SYMBOLS_SORTED' = SYMBOLS_SORTED /\ PREFERENCES' = PREFERENCES
       /\ \A c \in DOMAIN frame :
            /\ (frame[c].pc = "loop" /\ frame'[c].pc # "idle") =>
                  (frame'[c].s = frame[c].s /\ frame'[c].prefs = frame[c].prefs)
            /\ frame'[c].pc = "done" => frame'[c].result = PureResult(frame'[c])
      ]_vars

\* Two calls are under way at once: caller 1 is inside the loop of
\* reverse_convert while caller 2 is inside the loop of convert_text.
C10_Witness ==
    /\ DOMAIN frame = {1, 2}
    /\ frame[1].pc = "loop" /\ frame[1].fn = "reverse_convert" /\ frame[1].i = 1
    /\ frame[2].pc = "loop" /\ frame[2].fn = "convert_text" /\ frame[2].i = 2

====
